---------------------------- MODULE Spec2Model ----------------------------
(***************************************************************************)
(* A model of the travel-ai repository: the budget selector                *)
(* (agents/budget_agent.py), the JSON-from-text extraction and the         *)
(* itinerary generator (agents/logistics/logistics.py), the reel batcher   *)
(* (agents/multiple_reels.py) and the wizard (main.py).                    *)
(*                                                                         *)
(* Text is modelled as a sequence of tokens, each standing for a piece of  *)
(* the text the regular expressions and json.loads tell apart:             *)
(*   "J"  ```json            "F"  ```                                      *)
(*   "{"  {                  "}"  }                                        *)
(*   "T"  "trip_overview":   "L"  "locations":                             *)
(*   "V"  [{"name": "a"}]    (a complete JSON value that is no object)     *)
(*   "N"  [{"name": null}]   (the same with a name that is no string)      *)
(*   "Q"  "}```"             (a JSON string literal holding } and a fence) *)
(*   "Cut"                   (what is left of Q, V or N when a match ends  *)
(*                            at the } inside it)                          *)
(*   "W"  a blank            "X"  prose, not JSON                          *)
(***************************************************************************)
EXTENDS Integers, Sequences, FiniteSets, TLC

VARIABLES
    \* extract_json_from_text
    text, extracted,
    \* budget_agent
    pc, non_neg_places, neg_places, total_budget_str, env_key, toml_files,
    total_budget, unique_neg_places, idx, non_neg_places_details,
    neg_places_details, final_places, current_cost, queried, considered,
    files, raised, client,
    \* main.py and generate_itinerary
    step, session, uploaded, summaries, stages, ui, llm_calls, llm_out,
    returned,
    \* StyleAgent
    style_args, agent, reco,
    \* process_all_reels
    reel_call

extractVars == <<text, extracted>>
budgetVars == <<pc, non_neg_places, neg_places, total_budget_str, env_key,
                toml_files, total_budget, unique_neg_places, idx,
                non_neg_places_details, neg_places_details, final_places,
                current_cost, queried, considered, files, raised,
                client>>
wizardVars == <<step, session, uploaded, summaries, stages, ui, llm_calls,
                llm_out, returned>>
styleVars == <<style_args, agent, reco>>
reelVars == <<reel_call>>
vars == <<extractVars, budgetVars, wizardVars, styleVars, reelVars>>

-----------------------------------------------------------------------------
(* Bounds of the model.                                                    *)
MaxChunks == 3
MaxNonNeg == 2
MaxNeg == 2
MaxCities == 2
MaxReels == 4
MaxUploads == 1
MaxGenerate == 2
MaxRecoCalls == 1
MaxBudgetLen == 4

-----------------------------------------------------------------------------
(* Sequences.                                                              *)
RECURSIVE Flatten(_)
Flatten(ss) == IF ss = <<>> THEN <<>> ELSE Head(ss) \o Flatten(Tail(ss))

SeqsUpTo(S, n) == UNION {[1..k -> S] : k \in 0..n}

Range(s) == {s[k] : k \in 1..Len(s)}

NoRepeats(s) == \A i, j \in 1..Len(s) : i # j => s[i] # s[j]

MinOf(S) == CHOOSE x \in S : \A y \in S : x <= y

MaxOf(S) == CHOOSE x \in S : \A y \in S : x >= y

-----------------------------------------------------------------------------
(* json.loads and the regular expressions of extract_json_from_text.       *)

None == <<"None">>

JSONDecodeError == <<"JSONDecodeError">>

NoMatch == [matched |-> FALSE, group |-> <<>>]

\* Whitespace between JSON tokens carries no meaning: the parsed value is the
\* token sequence without it.
StripWs(s) == SelectSeq(s, LAMBDA t : t # "W")

\* The JSON grammar over tokens: a value is V, N, Q or an object; an object
\* is { } or { key value } with key T or L, or M, which stands for
\* "summary": "m", "locations": (a summary, then the key of the value).
RECURSIVE IsValue(_)
IsValue(s) ==
    \/ s = <<"V">>
    \/ s = <<"N">>
    \/ s = <<"Q">>
    \/ s = <<"{", "}">>
    \/ /\ Len(s) >= 4
       /\ s[1] = "{"
       /\ s[2] \in {"T", "L", "M"}
       /\ s[Len(s)] = "}"
       /\ IsValue(SubSeq(s, 3, Len(s) - 1))

\* json.loads(s): the value, or JSONDecodeError when s is not one JSON value.
JSONLoads(s) == IF IsValue(StripWs(s)) THEN StripWs(s) ELSE JSONDecodeError

\* The first position >= i of s that holds no blank (Len(s) + 1 if none).
SkipWs(s, i) ==
    MinOf({j \in i..(Len(s) + 1) :
              /\ \A k \in i..(j - 1) : s[k] = "W"
              /\ j <= Len(s) => s[j] # "W"})

\* \}\s*``` can end at position e: a } followed by blanks and a fence (the
\* fence that opens another ```json block is one too), or the } inside Q.
ClosesFence(s, e) ==
    \/ s[e] = "Q"
    \/ /\ s[e] = "}"
       /\ SkipWs(s, e + 1) <= Len(s)
       /\ s[SkipWs(s, e + 1)] \in {"F", "J"}

\* The tokens whose text holds a }.
HasBrace(t) == t \in {"}", "Q", "V", "N"}

\* The text a match from b to the } at e captures: a match that ends inside
\* Q, V or N leaves a cut piece of it, which is not JSON.
Group(s, b, e) ==
    IF s[e] = "}" THEN SubSeq(s, b, e) ELSE SubSeq(s, b, e - 1) \o <<"Cut">>

\* The positions re.search can start ```json\s*(\{.*?\})\s*``` at.
FencedStarts(s) ==
    {i \in 1..Len(s) :
        /\ s[i] = "J"
        /\ SkipWs(s, i + 1) <= Len(s)
        /\ s[SkipWs(s, i + 1)] = "{"
        /\ \E e \in (SkipWs(s, i + 1) + 1)..Len(s) : ClosesFence(s, e)}

\* re.search(r"```json\s*(\{.*?\})\s*```", text, flags=re.S): the leftmost
\* start, and from it the shortest capture.
FencedSearch(s) ==
    IF FencedStarts(s) = {} THEN NoMatch
    ELSE LET b == SkipWs(s, MinOf(FencedStarts(s)) + 1)
             e == MinOf({k \in (b + 1)..Len(s) : ClosesFence(s, k)})
         IN  [matched |-> TRUE, group |-> Group(s, b, e)]

\* The positions re.search can start (\{\s*\"trip_overview\".*\}) at.
LooseStarts(s) ==
    {i \in 1..Len(s) :
        /\ s[i] = "{"
        /\ SkipWs(s, i + 1) <= Len(s)
        /\ s[SkipWs(s, i + 1)] = "T"
        /\ \E e \in (SkipWs(s, i + 1) + 1)..Len(s) : HasBrace(s[e])}

\* re.search(r"(\{\s*\"trip_overview\".*\})", text, flags=re.S): the leftmost
\* start, and from it the longest capture (up to the last } of the text).
LooseSearch(s) ==
    IF LooseStarts(s) = {} THEN NoMatch
    ELSE LET b == MinOf(LooseStarts(s))
             e == MaxOf({k \in (b + 1)..Len(s) : HasBrace(s[k])})
         IN  [matched |-> TRUE, group |-> Group(s, b, e)]

\* try: return json.loads(x)  except Exception: return None
LoadsOrNone(s) == IF JSONLoads(s) = JSONDecodeError THEN None ELSE JSONLoads(s)

\* A variant that tries the loose object match before the fenced block.
ExtractLooseFirst(s) ==
    IF LooseSearch(s).matched
    THEN [result |-> LoadsOrNone(LooseSearch(s).group), used |-> "loose"]
    ELSE IF FencedSearch(s).matched
    THEN [result |-> LoadsOrNone(FencedSearch(s).group), used |-> "fenced"]
    ELSE [result |-> LoadsOrNone(s), used |-> "whole"]

\* A variant that goes on to the next attempt when a parse fails.
ExtractFallThrough(s) ==
    IF FencedSearch(s).matched /\ LoadsOrNone(FencedSearch(s).group) # None
    THEN [result |-> LoadsOrNone(FencedSearch(s).group), used |-> "fenced"]
    ELSE IF LooseSearch(s).matched /\ LoadsOrNone(LooseSearch(s).group) # None
    THEN [result |-> LoadsOrNone(LooseSearch(s).group), used |-> "loose"]
    ELSE [result |-> LoadsOrNone(s), used |-> "whole"]

\* extract_json_from_text(text): the value returned, and the one attempt
\* ("fenced", "loose" or "whole") whose json.loads produced it.
extract_json_from_text(s) ==
    IF FencedSearch(s).matched
    THEN [result |-> LoadsOrNone(FencedSearch(s).group), used |-> "fenced"]
    ELSE IF LooseSearch(s).matched
    THEN [result |-> LoadsOrNone(LooseSearch(s).group), used |-> "loose"]
    ELSE [result |-> LoadsOrNone(s), used |-> "whole"]

\* Python's truth value of what extract_json_from_text returns.
Truthy(v) == v \notin {None, <<"{", "}">>}

-----------------------------------------------------------------------------
(* budget_agent.py: the inputs the model draws from.                       *)

\* The place names, in one fixed order.
PlaceOrder == <<"a", "b", "c">>

Places == Range(PlaceOrder)

PlaceIndex(p) == CHOOSE i \in 1..Len(PlaceOrder) : PlaceOrder[i] = p

\* The optional lists a run starts from. Line 93 reads neg_places through
\* set() and nothing else reads it, so the order of the list decides
\* nothing: each list is taken in one order, its repeats kept.
NegLists ==
    {s \in SeqsUpTo(Places, MaxNeg) :
        \A i \in 1..(Len(s) - 1) : PlaceIndex(s[i]) <= PlaceIndex(s[i + 1])}

\* Budget strings, one character per element: $1, $3.5, and $ alone.
BudgetStrs == {<<"$", "1">>, <<"$", "3", ".", "5">>, <<"$">>}

\* What the chat completion of get_place_details can come back as: the call
\* raising, content that is no JSON, JSON without both keys, a value with no
\* digit in it, or both numbers (cost, review_score). The JSON object may
\* hold more keys than the two asked for: `place` is its "place" key, "" when
\* it has none.
Responses ==
    {[kind |-> k, cost |-> 0, review_score |-> 0, place |-> ""] :
        k \in {"llm_error", "not_json", "missing_keys", "no_number"}}
    \cup {[kind |-> "ok", cost |-> 0, review_score |-> 1, place |-> ""],
          [kind |-> "ok", cost |-> 1, review_score |-> 1, place |-> ""],
          [kind |-> "ok", cost |-> 2, review_score |-> 3, place |-> ""],
          [kind |-> "ok", cost |-> 1, review_score |-> 1, place |-> "a"]}

\* A key or a model name is a sequence of pieces of text; <<>> stands for
\* the empty string and for None, which the code does not tell apart.
Placeholder == "your-api-key"

\* A file under secret/: missing, unreadable (open or tomllib.load raises, or
\* openai is no table in it), or loaded, with its openai.api_key and
\* openai.model (<<>> where it has none).
NoFile == [state |-> "missing", api_key |-> <<>>, model |-> <<>>]

BadFile == [state |-> "unreadable", api_key |-> <<>>, model |-> <<>>]

FileContents(name) ==
    {NoFile, BadFile}
    \cup {[state |-> "ok", api_key |-> km[1], model |-> km[2]] : km \in
            {<< <<>>, <<>> >>,
             << <<"sk-", name>>, <<>> >>,
             << <<Placeholder, "-here">>, <<"gpt-4o">> >>,
             << <<>>, <<"gpt-4o">> >>}}

\* What os.getenv('OPENAI_API_KEY') can give.
EnvKeys == {<<>>, <<"sk-env">>, <<"x-", Placeholder>>}

\* OPENAI_API_KEY, whether the module has a tomllib, and the three files in
\* the order keys.local.toml, keys.toml, keys.example.toml.
AllKeyConfigs ==
    {[env |-> e, tomllib |-> t, toml |-> <<f[1], f[2], f[3]>>] :
        e \in EnvKeys, t \in BOOLEAN,
        f \in FileContents("local") \X FileContents("keys")
                 \X FileContents("example")}

\* The two configurations the runs of the selection start from: a key in
\* keys.toml, and no key but the placeholder of keys.example.toml.
KeyConfigs ==
    {c \in AllKeyConfigs :
        /\ c.env = <<>>
        /\ c.tomllib
        /\ c.toml[1] = NoFile
        /\ c.toml[2] \in {BadFile,
                          [state |-> "ok", api_key |-> <<"sk-", "keys">>,
                           model |-> <<>>]}
        /\ c.toml[3] = [state |-> "ok", api_key |-> <<Placeholder, "-here">>,
                        model |-> <<"gpt-4o">>]}

-----------------------------------------------------------------------------
(* budget_agent.py: its functions.                                         *)

Digits == <<"0", "1", "2", "3", "4", "5", "6", "7", "8", "9">>

IsDigit(c) == c \in Range(Digits)

DigitVal(c) == (CHOOSE k \in 1..Len(Digits) : Digits[k] = c) - 1

\* The number a string of digits denotes.
RECURSIVE IntVal(_)
IntVal(ds) ==
    IF ds = <<>> THEN 0
    ELSE IntVal(SubSeq(ds, 1, Len(ds) - 1)) * Len(Digits) + DigitVal(ds[Len(ds)])

\* Fraction digits without the trailing zeros, which do not change the number.
RECURSIVE DropTrailingZeros(_)
DropTrailingZeros(ds) ==
    IF ds # <<>> /\ ds[Len(ds)] = "0"
    THEN DropTrailingZeros(SubSeq(ds, 1, Len(ds) - 1))
    ELSE ds

NoBudget == [ok |-> FALSE, whole |-> 0, frac |-> <<>>]

\* A variant that keeps the digits before the point only.
ParseWholeOnly(budget_str) ==
    LET cleaned == SelectSeq(budget_str, LAMBDA c : IsDigit(c) \/ c = ".")
        dots == {k \in 1..Len(cleaned) : cleaned[k] = "."}
        dot == IF dots = {} THEN Len(cleaned) + 1 ELSE MinOf(dots)
    IN  IF Cardinality(dots) > 1 \/ Len(cleaned) = Cardinality(dots)
        THEN NoBudget
        ELSE [ok |-> TRUE,
              whole |-> IntVal(SubSeq(cleaned, 1, dot - 1)),
              frac |-> <<>>]

\* parse_budget(budget_str): float(re.sub(r'[^\d.]', '', budget_str)). The
\* number is whole + 0.frac; ok is FALSE where float() raises ValueError (no
\* digit, or more than one point).
parse_budget(budget_str) ==
    LET cleaned == SelectSeq(budget_str, LAMBDA c : IsDigit(c) \/ c = ".")
        dots == {k \in 1..Len(cleaned) : cleaned[k] = "."}
        dot == IF dots = {} THEN Len(cleaned) + 1 ELSE MinOf(dots)
    IN  IF Cardinality(dots) > 1 \/ Len(cleaned) = Cardinality(dots)
        THEN NoBudget
        ELSE [ok |-> TRUE,
              whole |-> IntVal(SubSeq(cleaned, 1, dot - 1)),
              frac |-> DropTrailingZeros(SubSeq(cleaned, dot + 1, Len(cleaned)))]

\* The loop of _load_secret_from_toml over the candidate files: the value of
\* the first that exists, loads and holds a truthy value under the key.
RECURSIVE LoadFrom(_, _)
LoadFrom(fs, key) ==
    IF fs = <<>> THEN <<>>
    ELSE IF Head(fs).state # "ok" \/ Head(fs)[key] = <<>>
    THEN LoadFrom(Tail(fs), key)
    ELSE Head(fs)[key]

\* _load_secret_from_toml(key): None when the module has no tomllib.
load_secret_from_toml(cfg, key) ==
    IF cfg.tomllib THEN LoadFrom(cfg.toml, key) ELSE <<>>

\* A variant that asks the files before the environment.
ResolveFileFirst(cfg) ==
    IF load_secret_from_toml(cfg, "api_key") # <<>>
    THEN load_secret_from_toml(cfg, "api_key")
    ELSE cfg.env

\* os.getenv('OPENAI_API_KEY') or _load_secret_from_toml('api_key')
ResolveKey(cfg) ==
    IF cfg.env # <<>> THEN cfg.env ELSE load_secret_from_toml(cfg, "api_key")

\* not api_key or "your-api-key" in api_key
KeyRejected(k) == k = <<>> \/ Placeholder \in Range(k)

NoDetails ==
    [found |-> FALSE, cost |-> 0, review_score |-> 0, place |-> "",
     raised |-> FALSE]

\* A variant without the outer try: a raise of the LLM call, or of json.loads
\* on its content, leaves get_place_details.
DetailsUnguarded(resp) ==
    IF resp.kind = "ok"
    THEN [found |-> TRUE, cost |-> resp.cost,
          review_score |-> resp.review_score, place |-> resp.place,
          raised |-> FALSE]
    ELSE [found |-> FALSE, cost |-> 0, review_score |-> 0, place |-> "",
          raised |-> resp.kind \in {"llm_error", "not_json"}]

\* get_place_details(client, place) on a response: the details, or None
\* (found = FALSE) for every failure; `raised` says whether an exception
\* leaves the function, which the except Exception never lets happen. The
\* details are the response's object with its two numbers converted, so
\* its other keys stay in it.
get_place_details(resp) ==
    IF resp.kind = "ok"
    THEN [found |-> TRUE, cost |-> resp.cost,
          review_score |-> resp.review_score, place |-> resp.place,
          raised |-> FALSE]
    ELSE NoDetails

\* A variant that keeps a mandatory place only while it fits the budget.
KeepMandatoryIfFits(details, cost_so_far, budget) ==
    details.found /\ cost_so_far + details.cost <= budget.whole

\* if details: (line 108), for a mandatory place.
KeepMandatory(details, cost_so_far, budget) == details.found

\* A variant that keeps an optional place whatever it costs.
KeepOptionalAnyCost(details) == details.found

\* if details and details['cost'] > 0: (line 118), for an optional place.
KeepOptional(details) == details.found /\ details.cost > 0

\* {'place': place, **details} and, for an optional place, 'score': a
\* "place" key of the details comes after 'place': place and replaces it.
\* The score review_score / cost is kept as the pair <<review_score, cost>>,
\* and a mandatory entry, which has no 'score' key, has score <<>>.
Entry(place, d, score) ==
    [place |-> IF d.place # "" THEN d.place ELSE place,
     cost |-> d.cost, review_score |-> d.review_score, score |-> score]

\* What the run remembers of a lookup: the place asked about, whether the
\* response was one of the failures, what get_place_details made of it, and
\* the name an entry built from it carries.
Query(place, resp, details) ==
    [place |-> place, failed |-> resp.kind # "ok", found |-> details.found,
     cost |-> details.cost, named |-> Entry(place, details, <<>>).place]

\* x['score'] > y['score'] for costs > 0.
ScoreGreater(x, y) == x.score[1] * y.score[2] > y.score[1] * x.score[2]

\* The place of s[k] after s.sort(key=score, reverse=True): behind every
\* entry of greater score and, the sort being stable, behind the entries of
\* equal score that came before it.
Rank(s, k) ==
    1 + Cardinality({j \in 1..Len(s) :
            \/ ScoreGreater(s[j], s[k])
            \/ (~ScoreGreater(s[j], s[k]) /\ ~ScoreGreater(s[k], s[j]) /\ j < k)})

SortByScoreDesc(s) ==
    [r \in 1..Len(s) |-> s[CHOOSE k \in 1..Len(s) : Rank(s, k) = r]]

\* A variant that compares the cost of the place alone with the budget.
FitsAlone(cost_so_far, cost, budget) == cost <= budget.whole

\* current_cost + place_details['cost'] <= total_budget. Costs are whole
\* numbers in this model, so the comparison is one with the whole part.
Fits(cost_so_far, cost, budget) == cost_so_far + cost <= budget.whole

\* The orders list(set(...)) can give the names of S.
Orderings(S) ==
    {f \in [1..Cardinality(S) -> S] : \A x \in S : \E k \in DOMAIN f : f[k] = x}

\* [place for place in list(set(neg_places)) if place not in non_neg_places]
UniqueNegPlaces(neg, non_neg) == Orderings(Range(neg) \ Range(non_neg))

-----------------------------------------------------------------------------
(* budget_agent(non_neg_places, neg_places, total_budget_str), one step    *)
(* per call of the chat completion; pc is the place the run is at. queried *)
(* lists the lookups made, considered the passes of the selection loop and *)
(* files what was written to budget_output.json.                           *)

\* The loop the run is in once the mandatory loop stands at i: the for
\* statements fall through when their list is used up.
AfterNonNeg(i, optional) ==
    IF i <= Len(non_neg_places) THEN "non_neg"
    ELSE IF optional # <<>> THEN "neg" ELSE "sort"

AfterNeg(i) == IF i <= Len(unique_neg_places) THEN "neg" ELSE "sort"

budgetFrame == UNCHANGED <<non_neg_places, neg_places, total_budget_str,
                           env_key, toml_files, extractVars, wizardVars,
                           styleVars, reelVars>>

\* Lines 90-105: parse the budget, filter the optional places, resolve the
\* API key. A ValueError of parse_budget or of the key check ends the run.
BudgetStart ==
    /\ pc = "start"
    /\ LET b == parse_budget(total_budget_str)
           cfg == [env |-> env_key, tomllib |-> toml_files.tomllib,
                   toml |-> toml_files.toml]
       IN  IF ~b.ok
           THEN /\ pc' = "raised"
                /\ raised' = "ValueError: parse_budget"
                /\ UNCHANGED <<total_budget, unique_neg_places, client>>
           ELSE /\ total_budget' = b
                /\ unique_neg_places' \in UniqueNegPlaces(neg_places, non_neg_places)
                /\ IF KeyRejected(ResolveKey(cfg))
                   THEN /\ pc' = "raised"
                        /\ raised' = "ValueError: api key"
                        /\ client' = client
                   ELSE /\ pc' = AfterNonNeg(1, unique_neg_places')
                        /\ raised' = raised
                        /\ client' = ResolveKey(cfg)
    /\ UNCHANGED <<idx, non_neg_places_details, neg_places_details,
                   final_places, current_cost, queried, considered, files>>
    /\ budgetFrame

\* Lines 106-110: one pass of the loop over the mandatory places.
LookupNonNeg ==
    /\ pc = "non_neg"
    /\ \E resp \in Responses :
          LET place == non_neg_places[idx]
              details == get_place_details(resp)
          IN  /\ queried' = Append(queried, Query(place, resp, details))
              /\ IF KeepMandatory(details, current_cost, total_budget)
                 THEN /\ non_neg_places_details' =
                            Append(non_neg_places_details, Entry(place, details, <<>>))
                      /\ current_cost' = current_cost + details.cost
                 ELSE UNCHANGED <<non_neg_places_details, current_cost>>
              /\ IF details.raised
                 THEN pc' = "raised" /\ raised' = "Exception: get_place_details"
                 ELSE pc' = AfterNonNeg(idx + 1, unique_neg_places) /\ raised' = raised
    /\ idx' = IF idx < Len(non_neg_places) THEN idx + 1 ELSE 1
    /\ UNCHANGED <<total_budget, unique_neg_places, neg_places_details,
                   final_places, considered, files>>
    /\ budgetFrame
    /\ UNCHANGED client

\* Lines 116-120: one pass of the loop over the optional places.
LookupNeg ==
    /\ pc = "neg"
    /\ \E resp \in Responses :
          LET place == unique_neg_places[idx]
              details == get_place_details(resp)
          IN  /\ queried' = Append(queried, Query(place, resp, details))
              /\ IF KeepOptional(details)
                 THEN neg_places_details' =
                         Append(neg_places_details,
                                Entry(place, details,
                                      <<details.review_score, details.cost>>))
                 ELSE UNCHANGED neg_places_details
              /\ IF details.raised
                 THEN pc' = "raised" /\ raised' = "Exception: get_place_details"
                 ELSE pc' = AfterNeg(idx + 1) /\ raised' = raised
    /\ idx' = IF idx < Len(unique_neg_places) THEN idx + 1 ELSE 1
    /\ UNCHANGED <<total_budget, unique_neg_places, non_neg_places_details,
                   final_places, current_cost, considered, files>>
    /\ budgetFrame
    /\ UNCHANGED client

\* What a pass of the selection loop leaves: the candidate, whether it was
\* appended, and current_cost and len(final_places) after the pass.
Pass(d, fit, cost, places) ==
    [entry |-> d, added |-> fit, current_cost |-> cost, length |-> Len(places)]

\* A variant that stops at the first candidate that does not fit.
RECURSIVE SelectOrBreak(_, _, _, _)
SelectOrBreak(candidates, k, acc, budget) ==
    IF k > Len(candidates) THEN acc
    ELSE LET d == candidates[k]
             fit == Fits(acc.current_cost, d.cost, budget)
         IN  IF ~fit
             THEN [acc EXCEPT !.considered =
                      Append(@, Pass(d, FALSE, acc.current_cost,
                                     acc.final_places))]
             ELSE SelectOrBreak(candidates, k + 1,
                     [final_places |-> Append(acc.final_places, d),
                      current_cost |-> acc.current_cost + d.cost,
                      considered |-> Append(acc.considered,
                         Pass(d, TRUE, acc.current_cost + d.cost,
                              Append(acc.final_places, d)))],
                     budget)

\* A variant that appends a fitting candidate without adding its cost.
RECURSIVE SelectUncharged(_, _, _, _)
SelectUncharged(candidates, k, acc, budget) ==
    IF k > Len(candidates) THEN acc
    ELSE LET d == candidates[k]
             fit == Fits(acc.current_cost, d.cost, budget)
         IN  SelectUncharged(candidates, k + 1,
                [final_places |-> IF fit THEN Append(acc.final_places, d)
                                  ELSE acc.final_places,
                 current_cost |-> acc.current_cost,
                 considered |-> Append(acc.considered,
                    Pass(d, fit, acc.current_cost,
                         IF fit THEN Append(acc.final_places, d)
                         ELSE acc.final_places))],
                budget)

\* Lines 127-130: the selection loop from its k-th candidate on. acc holds
\* final_places, current_cost and the passes made (considered).
RECURSIVE SelectLoop(_, _, _, _)
SelectLoop(candidates, k, acc, budget) ==
    IF k > Len(candidates) THEN acc
    ELSE LET d == candidates[k]
             fit == Fits(acc.current_cost, d.cost, budget)
         IN  SelectLoop(candidates, k + 1,
                [final_places |-> IF fit THEN Append(acc.final_places, d)
                                  ELSE acc.final_places,
                 current_cost |-> IF fit THEN acc.current_cost + d.cost
                                  ELSE acc.current_cost,
                 considered |-> Append(acc.considered,
                    Pass(d, fit,
                         IF fit THEN acc.current_cost + d.cost
                         ELSE acc.current_cost,
                         IF fit THEN Append(acc.final_places, d)
                         ELSE acc.final_places))],
                budget)

\* Lines 123-130: sort the candidates and go through them. final_places is
\* the list of the mandatory details itself, not a copy: an append goes to
\* the one list that final_places and non_neg_places_details both name.
SortAndSelect ==
    /\ pc = "sort"
    /\ LET sorted == SortByScoreDesc(neg_places_details)
           r == SelectLoop(sorted, 1,
                           [final_places |-> non_neg_places_details,
                            current_cost |-> current_cost,
                            considered |-> <<>>],
                           total_budget)
       IN  /\ neg_places_details' = sorted
           /\ final_places' = r.final_places
           /\ non_neg_places_details' = r.final_places
           /\ current_cost' = r.current_cost
           /\ considered' = r.considered
    /\ pc' = "write"
    /\ UNCHANGED <<total_budget, unique_neg_places, idx, queried, files, raised>>
    /\ budgetFrame
    /\ UNCHANGED client

\* The object json.dump writes.
Output ==
    [final_places |-> final_places,
     total_estimated_cost |-> current_cost,
     total_budget |-> total_budget]

\* A variant that also writes the file before the selection.
WriteTwice ==
    /\ pc \in {"sort", "write"}
    /\ files' = Append(files, Output)
    /\ pc' = IF pc = "sort" THEN pc ELSE "done"
    /\ Len(files) < 2
    /\ UNCHANGED <<total_budget, unique_neg_places, idx, non_neg_places_details,
                   neg_places_details, final_places, current_cost, queried,
                   considered, raised>>
    /\ budgetFrame
    /\ UNCHANGED client

\* Lines 132-142: write budget_output.json.
WriteOutput ==
    /\ pc = "write"
    /\ files' = Append(files, Output)
    /\ pc' = "done"
    /\ UNCHANGED <<total_budget, unique_neg_places, idx, non_neg_places_details,
                   neg_places_details, final_places, current_cost, queried,
                   considered, raised>>
    /\ budgetFrame
    /\ UNCHANGED client

\* st.session_state without the step: the keys the script sets. The
\* preferences, travelers and transport options of step 3 decide nothing and
\* are left out.
NoSession ==
    [cities |-> <<>>, location_dates |-> {}, summary |-> "",
     locations |-> <<>>, locations_and_ratings |-> <<>>]

\* The other components at rest.
ExtractIdle == text = <<>> /\ extracted = [result |-> None, used |-> "unset"]

WizardIdle ==
    /\ step = 1
    /\ session = NoSession
    /\ uploaded = 0
    /\ summaries = <<>>
    /\ stages = <<>>
    /\ ui = <<>>
    /\ llm_calls = 0
    /\ llm_out = [kind |-> "none", text |-> <<>>]
    /\ returned = None

\* process_all_reels has not been called.
NoReelCall ==
    [pc |-> "none", video_paths |-> <<>>, batch_size |-> 0, stages |-> <<>>,
     batches |-> <<>>, results |-> <<>>]

ReelIdle == reel_call = NoReelCall

\* No StyleAgent has been constructed.
NoAgent == [pc |-> "none", client |-> <<>>, model |-> <<>>]

\* get_recommendations has not been called.
NoData == [root |-> "none", places |-> [type |-> "missing", val |-> <<>>],
           locations |-> [type |-> "missing", val |-> <<>>]]

NoReco == [pc |-> "none", calls |-> 0, requests |-> 0, temperature |-> FALSE,
           response |-> <<>>, error |-> "", result |-> [json |-> NoData]]

StyleIdle ==
    /\ style_args = [api_key |-> <<>>, model |-> <<>>, tomllib |-> TRUE]
    /\ agent = NoAgent
    /\ reco = NoReco

BudgetIdle ==
    /\ pc = "idle"
    /\ non_neg_places = <<>>
    /\ neg_places = <<>>
    /\ total_budget_str = <<>>
    /\ env_key = <<>>
    /\ toml_files = [tomllib |-> TRUE, toml |-> <<>>]
    /\ total_budget = NoBudget
    /\ unique_neg_places = <<>>
    /\ idx = 1
    /\ non_neg_places_details = <<>>
    /\ neg_places_details = <<>>
    /\ final_places = <<>>
    /\ current_cost = 0
    /\ queried = <<>>
    /\ considered = <<>>
    /\ files = <<>>
    /\ raised = ""
    /\ client = <<>>

InitBudget ==
    /\ pc = "start"
    /\ non_neg_places \in SeqsUpTo(Places, MaxNonNeg)
    /\ neg_places \in NegLists
    /\ total_budget_str \in BudgetStrs
    /\ \E cfg \in KeyConfigs :
          /\ env_key = cfg.env
          /\ toml_files = [tomllib |-> cfg.tomllib, toml |-> cfg.toml]
    /\ total_budget = NoBudget
    /\ unique_neg_places = <<>>
    /\ idx = 1
    /\ non_neg_places_details = <<>>
    /\ neg_places_details = <<>>
    /\ final_places = <<>>
    /\ current_cost = 0
    /\ queried = <<>>
    /\ considered = <<>>
    /\ files = <<>>
    /\ raised = ""
    /\ client = <<>>
    /\ ExtractIdle
    /\ WizardIdle
    /\ StyleIdle
    /\ ReelIdle

NextBudget ==
    \/ BudgetStart
    \/ LookupNonNeg
    \/ LookupNeg
    \/ SortAndSelect
    \/ WriteOutput

SpecBudget == InitBudget /\ [][NextBudget]_vars

-----------------------------------------------------------------------------
(* extract_json_from_text on its own: every text of up to MaxChunks pieces, *)
(* a piece being one token or one of the blocks a response is made of.     *)

Tokens == {"J", "F", "{", "}", "T", "L", "V", "Q", "W", "X"}

Chunks ==
    {<<t>> : t \in Tokens}
    \cup {<<"J", "{", "T", "V", "}", "F">>,
          <<"J", "{", "X", "}", "F">>,
          <<"J", "{", "T", "Q", "}", "F">>,
          <<"{", "T", "V", "}">>,
          <<"{", "L", "V", "}">>,
          <<"{", "L", "{", "T", "V", "}", "}">>}

Texts == {Flatten(cs) : cs \in SeqsUpTo(Chunks, MaxChunks)}

InitExtract ==
    /\ text \in Texts
    /\ extracted = [result |-> None, used |-> "unset"]
    /\ BudgetIdle
    /\ WizardIdle
    /\ StyleIdle
    /\ ReelIdle

ExtractCall ==
    /\ extracted.used = "unset"
    /\ extracted' = extract_json_from_text(text)
    /\ UNCHANGED <<text, budgetVars, wizardVars, styleVars, reelVars>>

NextExtract == ExtractCall

SpecExtract == InitExtract /\ [][NextExtract]_vars

-----------------------------------------------------------------------------
(* multiple_reels.py: process_all_reels.                                   *)

batch_size == 3

\* The loop of process_all_reels over the reels from position k on: `batch`
\* is the batch being filled and `results` the batches summarized so far. A
\* batch is the sequence of the reels in it.
RECURSIVE ReelLoop(_, _, _, _, _)
ReelLoop(reels, k, batch, results, size) ==
    IF k > Len(reels)
    THEN IF batch # <<>> THEN Append(results, batch) ELSE results
    ELSE IF Len(batch) + 1 = size
    THEN ReelLoop(reels, k + 1, <<>>, Append(results, Append(batch, reels[k])),
                  size)
    ELSE ReelLoop(reels, k + 1, Append(batch, reels[k]), results, size)

\* A variant that summarizes full batches only.
FullBatchesOnly(reels, size) ==
    LET all == ReelLoop(reels, 1, <<>>, <<>>, size)
    IN  SelectSeq(all, LAMBDA b : Len(b) = size)

\* process_all_reels(video_paths, batch_size): the batches handed to
\* summarize_reel_batch, in order; the result list holds one summary for
\* each.
process_all_reels(reels, size) == ReelLoop(reels, 1, <<>>, <<>>, size)

\* The stages process_all_reels runs, in order: the reel processor on every
\* reel, the batch summarizer on every batch as it fills.
StagesOf(batches) ==
    Flatten([b \in 1..Len(batches) |->
                [r \in 1..Len(batches[b]) |-> "reel_processor"]
                \o <<"batch_summarizer">>])

-----------------------------------------------------------------------------
(* logistics.py: generate_itinerary.                                       *)

\* What client.chat.completions.create of generate_itinerary can come back
\* as: the call raising, a message without content, or a text.
ItineraryTexts ==
    {<<"J", "{", "T", "V", "}", "F", "X">>,
     <<"J", "{", "}", "F">>,
     <<"J", "{", "X", "}", "F", "{", "T", "V", "}">>,
     <<"X">>}

LLMOutcomes ==
    {[kind |-> "raise", text |-> <<>>], [kind |-> "no_content", text |-> <<>>]}
    \cup {[kind |-> "text", text |-> t] : t \in ItineraryTexts}

\* build_prompt(...) on the locations handed to it: ', '.join(locations)
\* raises TypeError when a name is no string. The dates main.py stores hold
\* both "start" and "end", so the line before it raises nothing.
build_prompt(locations) ==
    IF \A k \in 1..Len(locations) : locations[k].str
    THEN [ok |-> TRUE, error |-> ""]
    ELSE [ok |-> FALSE, error |-> "TypeError"]

\* A variant without the try: the exception leaves generate_itinerary.
GenerateUnguarded(locations, out) ==
    IF ~build_prompt(locations).ok
    THEN [returned |-> None, ui |-> <<>>, calls |-> 0, raised |-> TRUE]
    ELSE IF out.kind # "text"
    THEN [returned |-> None, ui |-> <<>>, calls |-> 1, raised |-> TRUE]
    ELSE IF Truthy(extract_json_from_text(out.text).result)
    THEN [returned |-> extract_json_from_text(out.text).result,
          ui |-> <<"raw_output">>, calls |-> 1, raised |-> FALSE]
    ELSE [returned |-> None, ui |-> <<"raw_output", "warning: no JSON">>,
          calls |-> 1, raised |-> FALSE]

\* generate_itinerary(...) on the stored locations and the outcome of its one
\* LLM call: the value it returns, what it shows, the LLM calls made and
\* whether an exception left it. build_prompt runs before the try, so its
\* exception leaves the function with no call made. A raise of the call, and
\* the TypeError of raw_text[:100] on a message without content, are caught
\* by the except and shown with st.error.
generate_itinerary(locations, out) ==
    IF ~build_prompt(locations).ok
    THEN [returned |-> None, ui |-> <<>>, calls |-> 0, raised |-> TRUE]
    ELSE IF out.kind # "text"
    THEN [returned |-> None, ui |-> <<"error: LLM">>, calls |-> 1, raised |-> FALSE]
    ELSE IF Truthy(extract_json_from_text(out.text).result)
    THEN [returned |-> extract_json_from_text(out.text).result,
          ui |-> <<"raw_output">>, calls |-> 1, raised |-> FALSE]
    ELSE [returned |-> None, ui |-> <<"raw_output", "warning: no JSON">>,
          calls |-> 1, raised |-> FALSE]

-----------------------------------------------------------------------------
(* main.py: the wizard. An action is one run of the script with a button   *)
(* pressed (or, at step 4, with files uploaded). ui is what that run has   *)
(* shown; stages lists the stages invoked so far, in order.                *)

\* What a text_input of step 1 can hold.
CityInputs == {"", "Paris", "Rome"}

\* What summarize_reel_batch can return for a batch.
SummaryTexts ==
    {<<"{", "L", "V", "}">>,
     <<"{", "M", "V", "}">>,
     <<"{", "L", "N", "}">>,
     <<"{", "L", "{", "}", "}">>,
     <<"{", "T", "V", "}">>,
     <<"X">>}

wizardFrame == UNCHANGED <<extractVars, budgetVars, styleVars, reelVars>>

\* parsed_summary["locations"] and the loop over it (lines 130-131): the
\* names, or the exception raised. V is the list [{"name": "a"}] and N the
\* list [{"name": null}]; a name is kept with whether it is a string.
LocationsOf(parsed) ==
    IF parsed = None \/ Head(parsed) # "{"
    THEN [ok |-> FALSE, names |-> <<>>, value |-> <<>>, error |-> "TypeError"]
    ELSE IF Len(parsed) < 3 \/ parsed[2] \notin {"L", "M"}
    THEN [ok |-> FALSE, names |-> <<>>, value |-> <<>>, error |-> "KeyError"]
    ELSE IF SubSeq(parsed, 3, Len(parsed) - 1) = <<"V">>
    THEN [ok |-> TRUE, names |-> <<[str |-> TRUE, v |-> "a"]>>,
          value |-> <<"V">>, error |-> ""]
    ELSE IF SubSeq(parsed, 3, Len(parsed) - 1) = <<"N">>
    THEN [ok |-> TRUE, names |-> <<[str |-> FALSE, v |-> "null"]>>,
          value |-> <<"N">>, error |-> ""]
    ELSE IF SubSeq(parsed, 3, Len(parsed) - 1) = <<"{", "}">>
    THEN [ok |-> TRUE, names |-> <<>>, value |-> <<"{", "}">>, error |-> ""]
    ELSE [ok |-> FALSE, names |-> <<>>, value |-> <<>>, error |-> "TypeError"]

\* A variant that goes on to step 2 whatever was entered.
Step1NextUnchecked ==
    /\ step = 1
    /\ \E inputs \in SeqsUpTo(CityInputs, MaxCities) :
          /\ Len(inputs) >= 1
          /\ session' = [session EXCEPT
                            !.cities = SelectSeq(inputs, LAMBDA c : c # "")]
          /\ step' = 2
          /\ ui' = <<>>
          /\ stages' = Append(stages, "ui_wizard")
    /\ UNCHANGED <<uploaded, summaries, llm_calls, llm_out, returned>>
    /\ wizardFrame

\* parsed_summary.get("summary", "") of line 134.
SummaryOf(parsed) ==
    IF parsed # None /\ Len(parsed) >= 2 /\ parsed[2] = "M" THEN "m" ELSE ""

\* Lines 60-75.
Step1Next ==
    /\ step = 1
    /\ \E inputs \in SeqsUpTo(CityInputs, MaxCities) :
          LET cities == SelectSeq(inputs, LAMBDA c : c # "")
          IN  /\ Len(inputs) >= 1
              /\ IF cities # <<>>
                 THEN /\ session' = [session EXCEPT !.cities = cities]
                      /\ step' = 2
                      /\ ui' = <<>>
                      /\ stages' = Append(stages, "ui_wizard")
                 ELSE /\ ui' = <<"warning: enter a city">>
                      /\ UNCHANGED <<session, step, stages>>
    /\ UNCHANGED <<uploaded, summaries, llm_calls, llm_out, returned>>
    /\ wizardFrame

\* Lines 78-93. The date inputs are keyed by the city name: a city entered
\* twice gives two widgets one key, Streamlit raises on the second and the
\* run ends before the button.
Step2Next ==
    /\ step = 2
    /\ IF NoRepeats(session.cities)
       THEN /\ session' = [session EXCEPT !.location_dates = Range(session.cities)]
            /\ step' = 3
            /\ ui' = <<>>
       ELSE /\ ui' = <<"exception: duplicate widget key">>
            /\ UNCHANGED <<session, step>>
    /\ UNCHANGED <<uploaded, summaries, stages, llm_calls, llm_out, returned>>
    /\ wizardFrame

\* Lines 97-116.
Step3Next ==
    /\ step = 3
    /\ step' = 4
    /\ ui' = <<>>
    /\ UNCHANGED <<session, uploaded, summaries, stages, llm_calls, llm_out,
                   returned>>
    /\ wizardFrame

\* A variant that reads the summary of the last batch.
LastSummary(summary) == summary[Len(summary)]

\* summary[0] of line 124.
FirstSummary(summary) == summary[1]

\* Lines 118-138 with files uploaded: process_all_reels, then the locations
\* of summary[0]. An exception of process_reel or summarize_reel_batch (the
\* stage at f raising), or of the lookup in the parsed summary, ends the run
\* with the step at 4. summaries is the list process_all_reels returned.
Step4Upload ==
    /\ step = 4
    /\ uploaded < MaxUploads
    /\ uploaded' = uploaded + 1
    /\ \E n \in 1..MaxReels :
          LET batches == process_all_reels([r \in 1..n |-> r], batch_size)
          IN  \/ \E outs \in [1..Len(batches) -> SummaryTexts] :
                    LET parsed_summary == extract_json_from_text(FirstSummary(outs)).result
                        locs == LocationsOf(parsed_summary)
                    IN  /\ summaries' = outs
                        /\ stages' = stages \o StagesOf(batches)
                        /\ IF locs.ok
                           THEN /\ session' = [session EXCEPT
                                       !.summary = SummaryOf(parsed_summary),
                                       !.locations = locs.names,
                                       !.locations_and_ratings = locs.value]
                                /\ step' = 5
                                /\ ui' = <<>>
                           ELSE /\ ui' = <<"exception: " \o locs.error>>
                                /\ UNCHANGED <<session, step>>
              \/ \E f \in 1..Len(StagesOf(batches)) :
                    /\ stages' = stages \o SubSeq(StagesOf(batches), 1, f)
                    /\ ui' = <<"exception: " \o StagesOf(batches)[f]>>
                    /\ UNCHANGED <<session, step, summaries>>
    /\ UNCHANGED <<llm_calls, llm_out, returned>>
    /\ wizardFrame

\* The calls of generate_itinerary made so far.
Generated ==
    Cardinality({k \in 1..Len(stages) : stages[k] = "itinerary_generator"})

\* Lines 140-153: the button calls generate_itinerary on the stored
\* locations and drops what it returns. llm_out is the outcome of the LLM
\* call this run made, if it made one.
Step5Generate ==
    /\ step = 5
    /\ Generated < MaxGenerate
    /\ \E out \in LLMOutcomes :
          LET g == generate_itinerary(session.locations, out)
          IN  /\ llm_out' = IF g.calls = 0 THEN [kind |-> "none", text |-> <<>>]
                            ELSE out
              /\ llm_calls' = llm_calls + g.calls
              /\ returned' = g.returned
              /\ ui' = IF g.raised THEN <<"exception: generate_itinerary">>
                       ELSE g.ui
    /\ stages' = Append(stages, "itinerary_generator")
    /\ UNCHANGED <<step, session, uploaded, summaries>>
    /\ wizardFrame

Init ==
    /\ WizardIdle
    /\ ExtractIdle
    /\ BudgetIdle
    /\ StyleIdle
    /\ ReelIdle

Next ==
    \/ Step1Next
    \/ Step2Next
    \/ Step3Next
    \/ Step4Upload
    \/ Step5Generate

Spec == Init /\ [][Next]_vars

-----------------------------------------------------------------------------
(* process_all_reels on its own: up to MaxReels uploaded files, a          *)
(* batch_size from 1 up to the default, and every way the call can end.    *)

\* One call: it returns the summaries, one for each batch, or an exception
\* of process_reel or of summarize_reel_batch (the stage at f) leaves it.
ProcessAllReels ==
    /\ reel_call.pc = "none"
    /\ \E n \in 0..MaxReels, size \in 1..batch_size :
          LET reels == [r \in 1..n |-> r]
              batches == process_all_reels(reels, size)
              run == StagesOf(batches)
              call == [NoReelCall EXCEPT !.video_paths = reels,
                                         !.batch_size = size]
          IN  \/ \E outs \in [1..Len(batches) -> SummaryTexts] :
                    reel_call' = [call EXCEPT !.pc = "returned",
                                              !.stages = run,
                                              !.batches = batches,
                                              !.results = outs]
              \/ \E f \in 1..Len(run) :
                    reel_call' = [call EXCEPT
                        !.pc = "raised",
                        !.stages = SubSeq(run, 1, f),
                        !.batches = SelectSeq(batches,
                            LAMBDA b : \E j \in 1..Len(batches) :
                                /\ batches[j] = b
                                /\ Len(StagesOf(SubSeq(batches, 1, j))) < f)]
    /\ UNCHANGED <<extractVars, budgetVars, wizardVars, styleVars>>

InitReels ==
    /\ ReelIdle
    /\ StyleIdle
    /\ BudgetIdle
    /\ ExtractIdle
    /\ WizardIdle

NextReels == ProcessAllReels

SpecReels == InitReels /\ [][NextReels]_vars

-----------------------------------------------------------------------------
(* style_agent.py: StyleAgent.__init__. Its module has no tomli fallback,   *)
(* so it can lack a tomllib where budget_agent.py has one.                 *)

\* The api_key and model arguments of StyleAgent(api_key=None, model=None).
StyleKeyArgs == {<<>>, <<"sk-arg">>, <<Placeholder>>}

ModelArgs == {<<>>, <<"gpt-4.1">>}

\* The loop of StyleAgent._load_secret_from_toml over the candidate files.
RECURSIVE StyleLoadFrom(_, _)
StyleLoadFrom(fs, key) ==
    IF fs = <<>> THEN <<>>
    ELSE IF Head(fs).state = "missing" THEN StyleLoadFrom(Tail(fs), key)
    ELSE IF Head(fs).state = "unreadable" THEN StyleLoadFrom(Tail(fs), key)
    ELSE IF Head(fs)[key] # <<>> THEN Head(fs)[key]
    ELSE StyleLoadFrom(Tail(fs), key)

\* StyleAgent._load_secret_from_toml(key)
StyleLoadSecret(cfg, key) ==
    IF ~cfg.tomllib THEN <<>> ELSE StyleLoadFrom(cfg.toml, key)

\* Lines 27-30: the explicit argument, else the environment, else the files.
StyleResolveKey(api_key, cfg) ==
    IF api_key # <<>> THEN api_key
    ELSE IF cfg.env # <<>> THEN cfg.env
    ELSE StyleLoadSecret(cfg, "api_key")

\* Line 41: model or _load_secret_from_toml('model') or "gpt-5"
StyleResolveModel(model, cfg) ==
    IF model # <<>> THEN model
    ELSE IF StyleLoadSecret(cfg, "model") # <<>>
    THEN StyleLoadSecret(cfg, "model")
    ELSE <<"gpt-5">>

\* StyleAgent(api_key, model): the agent holding its client and model, or
\* the ValueError of line 32.
StyleInit ==
    /\ agent.pc = "none"
    /\ \E api_key \in StyleKeyArgs, model \in ModelArgs, tl \in BOOLEAN :
          /\ tl => toml_files.tomllib
          /\ style_args' = [api_key |-> api_key, model |-> model,
                            tomllib |-> tl]
          /\ LET cfg == [env |-> env_key, tomllib |-> tl,
                         toml |-> toml_files.toml]
                 k == StyleResolveKey(api_key, cfg)
             IN  agent' = IF k = <<>> \/ Placeholder \in Range(k)
                          THEN [agent EXCEPT !.pc = "ValueError"]
                          ELSE [agent EXCEPT !.pc = "ready", !.client = k,
                                !.model = StyleResolveModel(model, cfg)]
    /\ UNCHANGED <<reco, extractVars, budgetVars, wizardVars, reelVars>>

\* The key resolution of both agents over every configuration of the
\* environment and the files, the selection run on one small input.
InitKey ==
    /\ pc = "start"
    /\ non_neg_places = <<"a">>
    /\ neg_places = <<"b">>
    /\ total_budget_str = <<"$", "3", ".", "5">>
    /\ \E cfg \in AllKeyConfigs :
          /\ env_key = cfg.env
          /\ toml_files = [tomllib |-> cfg.tomllib, toml |-> cfg.toml]
    /\ total_budget = NoBudget
    /\ unique_neg_places = <<>>
    /\ idx = 1
    /\ non_neg_places_details = <<>>
    /\ neg_places_details = <<>>
    /\ final_places = <<>>
    /\ current_cost = 0
    /\ queried = <<>>
    /\ considered = <<>>
    /\ files = <<>>
    /\ raised = ""
    /\ client = <<>>
    /\ ExtractIdle
    /\ WizardIdle
    /\ StyleIdle
    /\ ReelIdle

NextKey ==
    \/ StyleInit
    \/ BudgetStart
    \/ LookupNonNeg
    \/ LookupNeg
    \/ SortAndSelect
    \/ WriteOutput

SpecKey == InitKey /\ [][NextKey]_vars

-----------------------------------------------------------------------------
(* budget_agent on every budget string of up to MaxBudgetLen characters,   *)
(* with one mandatory and one optional place and a key in the environment. *)

BudgetChars == {"$", "0", "1", "3", "."}

InitParse ==
    /\ pc = "start"
    /\ non_neg_places = <<"a">>
    /\ neg_places = <<"b">>
    /\ total_budget_str \in SeqsUpTo(BudgetChars, MaxBudgetLen)
    /\ env_key = <<"sk-env">>
    /\ toml_files = [tomllib |-> TRUE, toml |-> <<NoFile, NoFile, NoFile>>]
    /\ total_budget = NoBudget
    /\ unique_neg_places = <<>>
    /\ idx = 1
    /\ non_neg_places_details = <<>>
    /\ neg_places_details = <<>>
    /\ final_places = <<>>
    /\ current_cost = 0
    /\ queried = <<>>
    /\ considered = <<>>
    /\ files = <<>>
    /\ raised = ""
    /\ client = <<>>
    /\ ExtractIdle
    /\ WizardIdle
    /\ StyleIdle
    /\ ReelIdle

NextParse ==
    \/ BudgetStart
    \/ LookupNonNeg
    \/ LookupNeg
    \/ SortAndSelect
    \/ WriteOutput

SpecParse == InitParse /\ [][NextParse]_vars

-----------------------------------------------------------------------------
(* style_agent.py: get_recommendations and _parse_and_validate_json. A     *)
(* response text is a sequence of pieces: J is ```json, F is ```, W is     *)
(* whitespace JSON allows (space, newline), U is whitespace only Python's  *)
(* strip() removes (form feed), X is prose, and the other pieces are JSON  *)
(* texts, named by what they hold.                                         *)

Str(cs) == [type |-> "str", val |-> cs]

List(items) == [type |-> "list", val |-> items]

IntValue == [type |-> "int", val |-> <<>>]

Missing == [type |-> "missing", val |-> <<>>]

Dict(places, locations) ==
    [root |-> "dict", places |-> places, locations |-> locations]

\* The JSON texts and the value json.loads gives for each. A string is its
\* characters, NL the newline and SP the space; the item "int" of a list is
\* a number, every other item a string.
Bodies ==
    [two        |-> Dict(Str(<<"a", "NL", "b">>), List(<<"x", "y">>)),
     padded     |-> Dict(Str(<<"SP", "a", "NL">>), List(<<"x">>)),
     fewer      |-> Dict(Str(<<"a", "NL", "b">>), List(<<"x">>)),
     blank_line |-> Dict(Str(<<"a", "NL", "NL", "b">>), List(<<"x", "y">>)),
     none       |-> Dict(Str(<<>>), List(<<>>)),
     unnamed    |-> Dict(Str(<<>>), List(<<"x">>)),
     array      |-> [root |-> "list", places |-> Missing, locations |-> Missing],
     no_places  |-> Dict(Missing, List(<<>>)),
     places_int |-> Dict(IntValue, List(<<"x">>)),
     no_locs    |-> Dict(Str(<<"a">>), Missing),
     locs_str   |-> Dict(Str(<<"a">>), Str(<<"x">>)),
     loc_int    |-> Dict(Str(<<"a", "NL", "b">>), List(<<"x", "int">>))]

BodyNames == DOMAIN Bodies

JsonWs == {"W"}

PyWs == {"W", "U"}

\* str.strip()
RECURSIVE LStrip(_)
LStrip(s) == IF s # <<>> /\ Head(s) \in PyWs THEN LStrip(Tail(s)) ELSE s

RECURSIVE RStrip(_)
RStrip(s) ==
    IF s # <<>> /\ s[Len(s)] \in PyWs THEN RStrip(SubSeq(s, 1, Len(s) - 1))
    ELSE s

Strip(s) == RStrip(LStrip(s))

\* Lines 106-109: the removal of a leading ```json and of a trailing ```.
CleanFences(s) ==
    LET a == IF s # <<>> /\ Head(s) = "J" THEN Strip(Tail(s)) ELSE s
    IN  IF a # <<>> /\ a[Len(a)] = "F"
        THEN Strip(SubSeq(a, 1, Len(a) - 1))
        ELSE a

\* json.loads of line 111: one JSON text with nothing but JSON whitespace
\* around it, or JSONDecodeError.
StyleLoads(s) ==
    LET t == SelectSeq(s, LAMBDA x : x \notin JsonWs)
    IN  IF /\ Len(t) = 1
           /\ t[1] \in BodyNames
           /\ \E i \in 1..Len(s) :
                 /\ s[i] = t[1]
                 /\ \A j \in 1..Len(s) : j # i => s[j] \in JsonWs
        THEN [ok |-> TRUE, data |-> Bodies[t[1]]]
        ELSE [ok |-> FALSE, data |-> NoData]

\* data["places"].strip(): the characters without the spaces and newlines
\* at both ends.
RECURSIVE StripChars(_)
StripChars(u) ==
    IF u # <<>> /\ Head(u) \in {"SP", "NL"} THEN StripChars(Tail(u))
    ELSE IF u # <<>> /\ u[Len(u)] \in {"SP", "NL"}
    THEN StripChars(SubSeq(u, 1, Len(u) - 1))
    ELSE u

\* len(data["places"].strip().split('\n'))
SplitCount(cs) == Len(SelectSeq(StripChars(cs), LAMBDA c : c = "NL")) + 1

\* A variant of the parse that does not compare the two counts.
ParseNoCount(s) ==
    LET l == StyleLoads(CleanFences(s))
        d == l.data
    IN  IF ~l.ok THEN [ok |-> FALSE, data |-> NoData]
        ELSE IF d.root # "dict" THEN [ok |-> FALSE, data |-> NoData]
        ELSE IF d.places.type # "str" THEN [ok |-> FALSE, data |-> NoData]
        ELSE IF d.locations.type # "list" THEN [ok |-> FALSE, data |-> NoData]
        ELSE IF \E i \in 1..Len(d.locations.val) : d.locations.val[i] = "int"
        THEN [ok |-> FALSE, data |-> NoData]
        ELSE [ok |-> TRUE, data |-> d]

\* _parse_and_validate_json(json_string): the data, or ValueError.
parse_and_validate_json(s) ==
    LET l == StyleLoads(CleanFences(s))
        d == l.data
    IN  IF ~l.ok THEN [ok |-> FALSE, data |-> NoData]
        ELSE IF d.root # "dict" THEN [ok |-> FALSE, data |-> NoData]
        ELSE IF d.places.type # "str" THEN [ok |-> FALSE, data |-> NoData]
        ELSE IF d.locations.type # "list" THEN [ok |-> FALSE, data |-> NoData]
        ELSE IF \E i \in 1..Len(d.locations.val) : d.locations.val[i] = "int"
        THEN [ok |-> FALSE, data |-> NoData]
        ELSE IF SplitCount(d.places.val) # Len(d.locations.val)
        THEN [ok |-> FALSE, data |-> NoData]
        ELSE [ok |-> TRUE, data |-> d]

\* json.dumps(validated_data, indent=2): the text that denotes the data.
Dumps(d) == [json |-> d]

\* What is passed for city and for style.
ArgKinds == {"empty", "text", "not a string"}

\* What client.chat.completions.create does: raises, or gives a choice with
\* a finish_reason and a content.
StyleLeads == {<<>>, <<"J">>, <<"J", "W">>, <<"J", "U">>, <<"W", "J">>,
               <<"W">>, <<"U">>, <<"F">>, <<"X">>}

StyleTrails == {<<>>, <<"F">>, <<"W", "F">>, <<"U", "F">>, <<"F", "W">>,
                <<"W">>, <<"U">>, <<"F", "F">>, <<"X">>}

\* What stands around the middle of a response: any lead with no trail or
\* a closing fence, and any trail with no lead or an opening fence.
StyleWraps ==
    (StyleLeads \X {<<>>, <<"F">>}) \cup ({<<>>, <<"J">>} \X StyleTrails)

StyleTexts ==
    {w[1] \o b \o w[2] :
        w \in StyleWraps, b \in {<<n>> : n \in BodyNames} \cup {<<>>, <<"X">>}}

StyleOutcomes ==
    {[kind |-> "raise", finish_reason |-> "", content |-> <<>>],
     [kind |-> "choice", finish_reason |-> "content_filter",
      content |-> <<"two">>],
     [kind |-> "choice", finish_reason |-> "length", content |-> <<>>]}
    \cup {[kind |-> "choice", finish_reason |-> "stop", content |-> t] :
            t \in StyleTexts \ {<<>>}}

\* What the request of a call can give: nothing where lines 145-148 raise
\* before one is made.
NoOutcome == [kind |-> "none", finish_reason |-> "", content |-> <<>>]

RequestOutcomes(city, style) ==
    IF city = "text" /\ style = "text" THEN StyleOutcomes ELSE {NoOutcome}

\* get_recommendations(city, style) with the agent's model and what the one
\* request gives: the call's end, the exception or the returned string.
get_recommendations(model, city, style, out) ==
    IF city # "text" \/ style # "text"
    THEN [pc |-> "raised", requests |-> 0, temperature |-> FALSE,
          response |-> <<>>, error |-> "ValueError", result |-> Dumps(NoData)]
    ELSE LET v == parse_and_validate_json(out.content)
             end(at, e, r) ==
                 [pc |-> at, requests |-> 1,
                  temperature |-> (model # <<"gpt-5">>),
                  response |-> out.content, error |-> e, result |-> r]
         IN  IF out.kind = "raise"
             THEN end("raised", "Exception: request", Dumps(NoData))
             ELSE IF out.finish_reason = "content_filter"
             THEN end("raised", "Exception: content filter", Dumps(NoData))
             ELSE IF out.content = <<>>
             THEN end("raised", "Exception: empty response", Dumps(NoData))
             ELSE IF ~v.ok
             THEN end("raised", "Exception: invalid response", Dumps(NoData))
             ELSE end("returned", "", Dumps(v.data))

GetRecommendations ==
    /\ agent.pc = "ready"
    /\ reco.calls < MaxRecoCalls
    /\ \E city \in ArgKinds, style \in ArgKinds :
       \E out \in RequestOutcomes(city, style) :
          LET r == get_recommendations(agent.model, city, style, out)
          IN  reco' = [pc |-> r.pc, calls |-> reco.calls + 1,
                       requests |-> reco.requests + r.requests,
                       temperature |-> r.temperature,
                       response |-> r.response, error |-> r.error,
                       result |-> r.result]
    /\ UNCHANGED <<style_args, agent, extractVars, budgetVars, wizardVars,
                   reelVars>>

InitStyle ==
    /\ StyleIdle
    /\ ReelIdle
    /\ BudgetIdle
    /\ ExtractIdle
    /\ WizardIdle

NextStyle ==
    \/ StyleInit
    \/ GetRecommendations

SpecStyle == InitStyle /\ [][NextStyle]_vars

-----------------------------------------------------------------------------
(* The properties checked.                                                 *)

RECURSIVE SumCosts(_)
SumCosts(s) == IF s = <<>> THEN 0 ELSE Head(s).cost + SumCosts(Tail(s))

MandatoryOf(fp) == SelectSeq(fp, LAMBDA e : e.score = <<>>)

OptionalOf(fp) == SelectSeq(fp, LAMBDA e : e.score # <<>>)

PlacesOf(s) == [k \in 1..Len(s) |-> s[k].place]

NamedOf(s) == [k \in 1..Len(s) |-> s[k].named]

\* The lookups of the mandatory loop and those of the optional loop.
MandatoryQueries ==
    SubSeq(queried, 1, IF Len(queried) < Len(non_neg_places) THEN Len(queried)
                       ELSE Len(non_neg_places))

OptionalQueries == SubSeq(queried, Len(non_neg_places) + 1, Len(queried))

\* A whole number c is at most the budget b = whole + 0.frac.
WithinBudget(c, b) == c <= b.whole

\* C1 as stated: every total_estimated_cost written is at most total_budget.
C1_NeverExceedsBudget ==
    \A k \in 1..Len(files) :
        WithinBudget(files[k].total_estimated_cost, files[k].total_budget)

\* C1 as amended: every total_estimated_cost written is at most the larger
\* of total_budget and the summed cost of the mandatory places written: an
\* optional place never takes the total past the budget, the mandatory ones
\* count whatever they cost.
C1_WithinBudgetOrMandatory ==
    \A k \in 1..Len(files) :
        \/ WithinBudget(files[k].total_estimated_cost, files[k].total_budget)
        \/ files[k].total_estimated_cost
              <= SumCosts(MandatoryOf(files[k].final_places))

\* A run that wrote mandatory and optional places and used the budget up.
C1_Witness ==
    /\ pc = "done"
    /\ MandatoryOf(final_places) # <<>>
    /\ OptionalOf(final_places) # <<>>
    /\ \E k \in 1..Len(considered) : ~considered[k].added
    /\ files[1].total_estimated_cost = total_budget.whole

\* C2 as stated: every place of the mandatory list has an entry in the
\* final_places written, the one made from a lookup of it.
C2_EveryMandatoryIncluded ==
    pc = "done" =>
        \A p \in Range(non_neg_places) :
            \E q \in Range(MandatoryQueries) :
                /\ q.place = p
                /\ q.found
                /\ \E k \in 1..Len(files[1].final_places) :
                      files[1].final_places[k].place = q.named

\* C2 as amended: the mandatory entries of final_places are, in order, the
\* entries of the mandatory list whose lookup succeeded, whatever they cost
\* and whatever the budget, each under the name its lookup gave it; an entry
\* whose lookup failed is left out.
C2_FoundMandatoryIncluded ==
    /\ PlacesOf(MandatoryQueries)
          = SubSeq(non_neg_places, 1, Len(MandatoryQueries))
    /\ pc \in {"write", "done"} =>
          /\ Len(MandatoryQueries) = Len(non_neg_places)
          /\ PlacesOf(MandatoryOf(final_places))
                = NamedOf(SelectSeq(MandatoryQueries, LAMBDA q : q.found))
          /\ SumCosts(MandatoryOf(final_places))
                = SumCosts(SelectSeq(MandatoryQueries, LAMBDA q : q.found))
    /\ pc = "done" => files[1].final_places = final_places

\* A run that wrote a mandatory place costing more than the whole budget.
C2_Witness ==
    /\ pc = "done"
    /\ \E k \in 1..Len(files[1].final_places) :
          /\ files[1].final_places[k].score = <<>>
          /\ ~WithinBudget(files[1].final_places[k].cost, total_budget)

\* The cost spent when the selection loop comes to its k-th candidate.
RECURSIVE CostBefore(_)
CostBefore(k) ==
    IF k = 1 THEN SumCosts(MandatoryOf(final_places))
    ELSE CostBefore(k - 1)
         + (IF considered[k - 1].added THEN considered[k - 1].entry.cost ELSE 0)

\* C3: the candidates (the optional places found with a cost above 0) are
\* gone through once each in descending score order; one is added if and
\* only if the cost so far plus its cost is at most the budget, and one that
\* does not fit does not end the pass.
C3_FirstFitDescending ==
    /\ \A k \in 1..Len(considered) :
          /\ considered[k].entry = neg_places_details[k]
          /\ considered[k].added
                <=> WithinBudget(CostBefore(k) + considered[k].entry.cost,
                                 total_budget)
    /\ pc \in {"write", "done"} =>
          /\ \A k \in 1..(Len(neg_places_details) - 1) :
                ~ScoreGreater(neg_places_details[k + 1], neg_places_details[k])
          /\ Len(neg_places_details)
                = Len(SelectSeq(OptionalQueries,
                                LAMBDA q : q.found /\ q.cost > 0))
          /\ Range(PlacesOf(neg_places_details))
                = Range(NamedOf(SelectSeq(OptionalQueries,
                                          LAMBDA q : q.found /\ q.cost > 0)))
    /\ pc \in {"write", "done"} =>
          /\ Len(considered) = Len(neg_places_details)
          /\ OptionalOf(final_places)
                = [k \in 1..Len(SelectSeq(considered, LAMBDA c : c.added)) |->
                      SelectSeq(considered, LAMBDA c : c.added)[k].entry]

\* A run that skipped a candidate and added a later, lower-scored one.
C3_Witness ==
    /\ pc = "done"
    /\ \E j, k \in 1..Len(considered) :
          /\ j < k
          /\ ~considered[j].added
          /\ considered[k].added
          /\ ScoreGreater(considered[j].entry, considered[k].entry)

\* The objects of the well-formed fenced blocks of s: ```json, blanks, an
\* object, blanks, ``` (the ``` that begins another ```json closes one too).
WellFormedFenced(s) ==
    {JSONLoads(SubSeq(s, be[1], be[2])) : be \in
        {x \in (1..Len(s)) \X (1..Len(s)) :
            /\ x[1] < x[2]
            /\ s[x[1]] = "{"
            /\ s[x[2]] = "}"
            /\ \E i \in 1..(x[1] - 1) : s[i] = "J" /\ SkipWs(s, i + 1) = x[1]
            /\ SkipWs(s, x[2] + 1) <= Len(s)
            /\ s[SkipWs(s, x[2] + 1)] \in {"F", "J"}
            /\ JSONLoads(SubSeq(s, x[1], x[2])) # JSONDecodeError}}

\* What each of the three attempts yields on s, taken alone.
FencedAttempt(s) ==
    IF FencedSearch(s).matched THEN LoadsOrNone(FencedSearch(s).group) ELSE None

LooseAttempt(s) ==
    IF LooseSearch(s).matched THEN LoadsOrNone(LooseSearch(s).group) ELSE None

WholeAttempt(s) == LoadsOrNone(s)

Called == extracted.used # "unset"

\* C4: a text that holds a well-formed fenced object yields the object of
\* such a block, and nothing is raised.
C4_AnyWellFormedFenced ==
    Called =>
        /\ extracted.result # JSONDecodeError
        /\ WellFormedFenced(text) # {} => extracted.result \in WellFormedFenced(text)

\* C5 as stated: fenced, then loose, then whole; a later attempt is used only
\* when the earlier ones yield nothing, and None only when all three fail.
C5_NoneOnlyWhenAllFail ==
    Called =>
        /\ extracted.used = "loose" => FencedAttempt(text) = None
        /\ extracted.used = "whole" =>
              FencedAttempt(text) = None /\ LooseAttempt(text) = None
        /\ extracted.result = None =>
              /\ FencedAttempt(text) = None
              /\ LooseAttempt(text) = None
              /\ WholeAttempt(text) = None

\* C5 as amended: the attempt used is the first, in the order fenced, loose,
\* whole, whose pattern matches (the whole text always does); a later one is
\* used only when the earlier patterns matched nothing; the result is that
\* one attempt's, and it is None whenever all three attempts fail.
C5_FallbackOrder ==
    Called =>
        /\ extracted.used = "fenced" <=> FencedSearch(text).matched
        /\ extracted.used = "loose"
              <=> (~FencedSearch(text).matched /\ LooseSearch(text).matched)
        /\ extracted.used = "whole"
              <=> (~FencedSearch(text).matched /\ ~LooseSearch(text).matched)
        /\ extracted.used = "fenced" => extracted.result = FencedAttempt(text)
        /\ extracted.used = "loose" => extracted.result = LooseAttempt(text)
        /\ extracted.used = "whole" => extracted.result = WholeAttempt(text)
        /\ (FencedAttempt(text) = None /\ LooseAttempt(text) = None
               /\ WholeAttempt(text) = None)
              => extracted.result = None

\* A call that fell back to the whole text and parsed it.
C5_Witness ==
    /\ Called
    /\ extracted.used = "whole"
    /\ extracted.result = <<"{", "L", "V", "}">>

\* C6: the optional candidates are the distinct names of neg_places that are
\* not mandatory; each is looked up once, and final_places names no place as
\* mandatory and optional, nor twice as optional.
C6_OptionalDeduplicated ==
    /\ NoRepeats(unique_neg_places)
    /\ Range(unique_neg_places) \cap Range(non_neg_places) = {}
    /\ pc \notin {"start", "raised"} =>
          Range(unique_neg_places) = Range(neg_places) \ Range(non_neg_places)
    /\ NoRepeats(PlacesOf(OptionalQueries))
    /\ Range(PlacesOf(OptionalQueries)) \subseteq Range(unique_neg_places)
    /\ NoRepeats(PlacesOf(OptionalOf(final_places)))
    /\ Range(PlacesOf(OptionalOf(final_places)))
          \cap Range(PlacesOf(MandatoryOf(final_places))) = {}
    /\ Range(PlacesOf(OptionalOf(final_places))) \cap Range(non_neg_places) = {}

\* The number each budget string of the model denotes.
BudgetDenoted(str) ==
    CASE str = <<"$", "1">> -> [ok |-> TRUE, whole |-> 1, frac |-> <<>>]
      [] str = <<"$", "3", ".", "5">> -> [ok |-> TRUE, whole |-> 3, frac |-> <<"5">>]
      [] OTHER -> NoBudget

\* C7: a run that completes has written the file exactly once, after the
\* selection, as an object of the three keys, total_budget being the number
\* of the budget string; a run that has not completed has written nothing.
C7_WrittenOnceAtEnd ==
    /\ pc # "done" => files = <<>>
    /\ pc = "done" =>
          /\ Len(files) = 1
          /\ DOMAIN files[1]
                = {"final_places", "total_estimated_cost", "total_budget"}
          /\ files[1].total_budget = BudgetDenoted(total_budget_str)
          /\ files[1].total_budget.ok
          /\ files[1].final_places = final_places
          /\ files[1].total_estimated_cost = current_cost
          /\ Len(considered) = Len(neg_places_details)
          /\ Len(queried) = Len(non_neg_places) + Len(unique_neg_places)

\* A completed run on the budget $3.5 that wrote places.
C7_Witness ==
    /\ pc = "done"
    /\ total_budget_str = <<"$", "3", ".", "5">>
    /\ Len(files[1].final_places) >= 2

\* C8 as stated: a failed lookup raises nothing, its place is not in the
\* result, the run goes on, and no place is queried more than once.
C8_EachPlaceQueriedOnce ==
    /\ pc = "raised" => queried = <<>>
    /\ NoRepeats(PlacesOf(queried))
    /\ pc = "done" =>
          \A k \in 1..Len(queried) :
              queried[k].failed =>
                  queried[k].place \notin Range(PlacesOf(final_places))

\* C8 as amended: a failed lookup raises nothing and yields None; the run
\* makes exactly one query for each entry of the mandatory list and one for
\* each distinct optional name, in order, failed or not; and the entries
\* written are among those whose query succeeded.
C8_OneQueryPerEntry ==
    /\ pc = "raised" => queried = <<>>
    /\ \A k \in 1..Len(queried) : queried[k].failed => ~queried[k].found
    /\ PlacesOf(queried)
          = SubSeq(non_neg_places \o unique_neg_places, 1, Len(queried))
    /\ pc \in {"sort", "write", "done"} =>
          Len(queried) = Len(non_neg_places) + Len(unique_neg_places)
    /\ pc \in {"write", "done"} =>
          /\ Len(MandatoryOf(final_places))
                = Len(SelectSeq(MandatoryQueries, LAMBDA q : ~q.failed))
          /\ Range(PlacesOf(OptionalOf(final_places)))
                \subseteq Range(NamedOf(SelectSeq(OptionalQueries,
                                                  LAMBDA q : ~q.failed)))

\* A run whose first lookup failed and that went on to find and write the
\* places after it.
C8_Witness ==
    /\ pc = "done"
    /\ Len(queried) >= 3
    /\ queried[1].failed
    /\ queried[2].found
    /\ queried[3].found
    /\ Len(final_places) = 2

\* C9: generate_itinerary makes at most one LLM call, and when it has made
\* it lets no exception out: it returns the extracted plan when that is a
\* non-empty value, and otherwise returns None and shows a warning or an
\* error.
C9_GenerateNeverRaises ==
    /\ llm_calls <= Generated
    /\ build_prompt(session.locations).ok => llm_calls = Generated
    /\ llm_out.kind # "none" =>
          /\ "exception: generate_itinerary" \notin Range(ui)
          /\ IF /\ llm_out.kind = "text"
                /\ Truthy(extract_json_from_text(llm_out.text).result)
             THEN returned = extract_json_from_text(llm_out.text).result
             ELSE /\ returned = None
                  /\ \E m \in {"warning: no JSON", "error: LLM"} : m \in Range(ui)

\* A second call of generate_itinerary whose LLM call raised.
C9_Witness ==
    /\ llm_calls = 2
    /\ llm_out.kind = "raise"
    /\ returned = None
    /\ ui = <<"error: LLM">>

\* C10: the itinerary generator is invoked only after the style agent and
\* the budget selector have run, and the visualizer is invoked on the plan
\* that was generated.
C10_PipelineOrder ==
    /\ \A k \in 1..Len(stages) :
          stages[k] = "itinerary_generator" =>
              \E i, j \in 1..(k - 1) :
                  /\ i < j
                  /\ stages[i] = "style_agent"
                  /\ stages[j] = "budget_selector"
    /\ returned # None => stages[Len(stages)] = "itinerary_visualizer"


\* The key both agents are to end up with: the explicit argument (StyleAgent
\* only), else a non-empty OPENAI_API_KEY, else the api_key of the first of
\* the three files that loaded with a non-empty one; <<>> when there is none.
HoldsKey(f) == f.state = "ok" /\ f.api_key # <<>>

FirstFileKey(tomllib) ==
    IF tomllib /\ \E i \in 1..3 : HoldsKey(toml_files.toml[i])
    THEN toml_files.toml[CHOOSE i \in 1..3 :
            /\ HoldsKey(toml_files.toml[i])
            /\ \A j \in 1..(i - 1) : ~HoldsKey(toml_files.toml[j])].api_key
    ELSE <<>>

ExpectedKey(arg, tomllib) ==
    IF arg # <<>> THEN arg
    ELSE IF env_key # <<>> THEN env_key
    ELSE FirstFileKey(tomllib)

Unusable(k) == k = <<>> \/ \E i \in 1..Len(k) : k[i] = Placeholder

\* C11: the key is the explicit argument (StyleAgent), else a non-empty
\* OPENAI_API_KEY, else the value of the first of keys.local.toml, keys.toml,
\* keys.example.toml that exists, loads and holds a non-empty one; when that
\* key is missing or contains "your-api-key" a ValueError is raised and no
\* request has been made, and otherwise the client holds exactly that key.
C11_KeyPriority ==
    /\ (pc # "start" /\ raised # "ValueError: parse_budget") =>
          LET k == ExpectedKey(<<>>, toml_files.tomllib)
          IN  IF Unusable(k)
              THEN /\ pc = "raised"
                   /\ raised = "ValueError: api key"
                   /\ queried = <<>>
                   /\ client = <<>>
              ELSE /\ raised # "ValueError: api key"
                   /\ client = k
    /\ agent.pc # "none" =>
          LET k == ExpectedKey(style_args.api_key, style_args.tomllib)
          IN  IF Unusable(k)
              THEN agent.pc = "ValueError" /\ agent.client = <<>>
              ELSE agent.pc = "ready" /\ agent.client = k

\* Both agents have resolved their key from keys.toml, the environment being
\* empty, keys.local.toml giving none, keys.example.toml holding one as well
\* and no argument passed.
C11_Witness ==
    /\ env_key = <<>>
    /\ ~HoldsKey(toml_files.toml[1])
    /\ HoldsKey(toml_files.toml[2])
    /\ HoldsKey(toml_files.toml[3])
    /\ pc = "done"
    /\ client = <<"sk-", "keys">>
    /\ agent.pc = "ready"
    /\ style_args.api_key = <<>>
    /\ agent.client = client


\* The number of names in a places string: one more than the newlines that
\* stand between its first and its last character other than space and
\* newline; one when it has no such character.
NameCount(cs) ==
    LET inked == {i \in 1..Len(cs) : cs[i] \notin {"SP", "NL"}}
    IN  IF inked = {} THEN 1
        ELSE 1 + Cardinality({i \in 1..Len(cs) :
                    /\ cs[i] = "NL"
                    /\ \E j \in inked : j < i
                    /\ \E j \in inked : i < j})

\* The schema: an object whose places is a string and whose locations is a
\* list of strings, as many as there are names.
MatchesSchema(d) ==
    /\ d.root = "dict"
    /\ d.places.type = "str"
    /\ d.locations.type = "list"
    /\ \A i \in 1..Len(d.locations.val) : d.locations.val[i] # "int"
    /\ NameCount(d.places.val) = Len(d.locations.val)

AllIn(s, set) == \A i \in 1..Len(s) : s[i] \in set

\* The text is the JSON text at position i and JSON whitespace around it.
PlainJson(s, i) ==
    /\ s[i] \in BodyNames
    /\ \A j \in 1..Len(s) : j # i => s[j] \in JsonWs

\* The text is the JSON text at position i inside a leading ```json, a
\* trailing ``` or both, with nothing but whitespace between the parts and,
\* when the ```json is there, after them.
FencedJson(s, i) ==
    LET pre == SubSeq(s, 1, i - 1)
        post == SubSeq(s, i + 1, Len(s))
        lead == pre # <<>> /\ Head(pre) = "J" /\ AllIn(Tail(pre), PyWs)
        close(k) == /\ post[k] = "F"
                    /\ AllIn(SubSeq(post, 1, k - 1), PyWs)
                    /\ AllIn(SubSeq(post, k + 1, Len(post)), PyWs)
    IN  /\ s[i] \in BodyNames
        /\ \/ lead /\ AllIn(post, PyWs)
           \/ lead /\ \E k \in 1..Len(post) : close(k)
           \/ AllIn(pre, PyWs) /\ post # <<>> /\ close(Len(post))

\* C12 as stated: a returned result is validated JSON matching the schema,
\* and it is returned only for a response that is valid JSON.
C12_ValidJsonOrException ==
    reco.pc = "returned" =>
        \E i \in 1..Len(reco.response) :
            /\ PlainJson(reco.response, i)
            /\ MatchesSchema(Bodies[reco.response[i]])
            /\ reco.result = [json |-> Bodies[reco.response[i]]]

\* C12: get_recommendations returns exactly when the response is one JSON
\* text matching the schema, bare or inside a leading ```json and/or a
\* trailing ``` with whitespace around; it then returns that data
\* serialized, and every other response of the model raises an exception.
C12_ValidatedAfterCleaning ==
    LET accepted ==
            {i \in 1..Len(reco.response) :
                /\ PlainJson(reco.response, i) \/ FencedJson(reco.response, i)
                /\ MatchesSchema(Bodies[reco.response[i]])}
    IN  /\ reco.pc = "returned" =>
              /\ reco.requests > 0
              /\ \E i \in accepted :
                    reco.result = [json |-> Bodies[reco.response[i]]]
        /\ reco.error = "Exception: invalid response" =>
              /\ reco.pc = "raised"
              /\ accepted = {}
        /\ reco.pc = "raised" => reco.result = [json |-> NoData]

\* A response wrapped in ```json and ``` has been accepted and its data
\* returned.
C12_Witness ==
    /\ reco.pc = "returned"
    /\ Head(reco.response) = "J"
    /\ reco.response[Len(reco.response)] = "F"
    /\ reco.result = [json |-> Bodies.two]


\* The digits of a string, and those of them that stand after its point.
DigitsOf(str) == SelectSeq(str, LAMBDA c : IsDigit(c))

DigitsAfterPoint(str) ==
    LET dots == {k \in 1..Len(str) : str[k] = "."}
    IN  IF dots = {} THEN <<>>
        ELSE DigitsOf(SubSeq(str, MaxOf(dots) + 1, Len(str)))

RECURSIVE Pow10(_)
Pow10(n) == IF n = 0 THEN 1 ELSE 10 * Pow10(n - 1)

\* A budget string of digits, at most one point and other characters, and
\* the number it denotes: its digits read as one whole number, divided by ten
\* for every digit after the point.
Denotes(str) ==
    /\ DigitsOf(str) # <<>>
    /\ Cardinality({k \in 1..Len(str) : str[k] = "."}) <= 1

\* The budget b is the number the string denotes, both scaled to whole
\* numbers.
IsValueOf(b, str) ==
    /\ b.ok
    /\ Len(b.frac) <= Len(DigitsAfterPoint(str))
    /\ (b.whole * Pow10(Len(b.frac)) + IntVal(b.frac))
          * Pow10(Len(DigitsAfterPoint(str)) - Len(b.frac))
       = IntVal(DigitsOf(str))

\* C13: for a budget string with digits and at most one point, parse_budget
\* gives the number the digits denote, and that number is the total_budget
\* the selection runs with and the one written.
C13_ParsedValueUsed ==
    (pc # "start" /\ Denotes(total_budget_str)) =>
        /\ IsValueOf(parse_budget(total_budget_str), total_budget_str)
        /\ raised # "ValueError: parse_budget"
        /\ total_budget = parse_budget(total_budget_str)
        /\ \A k \in 1..Len(considered) :
              considered[k].added =
                  ((CostBefore(k) + considered[k].entry.cost)
                        * Pow10(Len(DigitsAfterPoint(total_budget_str)))
                      <= IntVal(DigitsOf(total_budget_str)))
        /\ \A k \in 1..Len(files) :
              IsValueOf(files[k].total_budget, total_budget_str)

\* The string $1.3 has been parsed and an optional place of cost 1 taken
\* under it.
C13_Witness ==
    /\ total_budget_str = <<"$", "1", ".", "3">>
    /\ total_budget = [ok |-> TRUE, whole |-> 1, frac |-> <<"3">>]
    /\ pc = "done"
    /\ \E k \in 1..Len(considered) : considered[k].added


\* The list final_places names: the mandatory details, which line 126 makes
\* final_places itself.
FinalList ==
    IF pc \in {"write", "done"} THEN final_places ELSE non_neg_places_details

CostIsSum ==
    /\ current_cost = SumCosts(FinalList)
    /\ \A k \in 1..Len(considered) :
          /\ considered[k].current_cost
                = SumCosts(SubSeq(final_places, 1, considered[k].length))
          /\ considered[k].current_cost
                >= (IF k = 1 THEN SumCosts(MandatoryOf(final_places))
                    ELSE considered[k - 1].current_cost)
    /\ \A k \in 1..Len(files) :
          files[k].total_estimated_cost = SumCosts(files[k].final_places)

\* C14: after every mandatory lookup and after every pass of the selection
\* loop current_cost is the sum of the cost fields of the entries of
\* final_places, the written total_estimated_cost is that sum, and no step
\* lowers current_cost.
C14_CostIsSumAndGrows ==
    [][CostIsSum' /\ current_cost' >= current_cost]_vars

\* A mandatory and an optional place, both with a cost above zero, are in
\* the written final_places.
C14_Witness ==
    /\ pc = "done"
    /\ Len(files) = 1
    /\ \E k \in 1..Len(final_places) :
          final_places[k].score = <<>> /\ final_places[k].cost > 0
    /\ \E k \in 1..Len(final_places) :
          final_places[k].score # <<>> /\ final_places[k].cost > 0
    /\ files[1].total_estimated_cost > 1


\* What a step of the wizard may do to st.session_state["step"].
StepRule ==
    /\ step' \in {step, step + 1}
    /\ step' \in 1..5
    /\ (step = 1 /\ step' = 2) =>
          /\ session'.cities # <<>>
          /\ \A k \in 1..Len(session'.cities) : session'.cities[k] # ""
    /\ (step = 1 /\ step' = 1) =>
          /\ ui' = <<"warning: enter a city">>
          /\ session'.cities = session.cities
    /\ step = 5 => step' = 5

\* C15: the step starts at 1 and every run of the script leaves it as it is
\* or raises it by one, never beyond 5; it goes from 1 to 2 only with at
\* least one non-empty city stored, a click without one showing the warning
\* and changing neither step nor cities; at 5 it stays at 5.
C15_StepOnlyForward == step = 1 /\ [][StepRule]_vars

\* The wizard is at step 5 with the itinerary generated twice.
C15_Witness ==
    /\ step = 5
    /\ Generated >= 2
    /\ session.cities # <<>>


\* C16: a call of process_all_reels that returns has summarized batches that
\* are, one after the other, the uploaded reels in upload order, each of
\* batch_size reels but for a last one that may hold fewer and holds at
\* least one; it returns one summary for each, ceil(n / batch_size) of them.
C16_BatchesPartitionReels ==
    reel_call.pc = "returned" =>
        LET b == reel_call.batches
            n == Len(reel_call.video_paths)
            size == reel_call.batch_size
        IN  /\ Flatten(b) = reel_call.video_paths
            /\ \A j \in 1..Len(b) :
                  /\ Len(b[j]) >= 1
                  /\ Len(b[j]) <= size
                  /\ j < Len(b) => Len(b[j]) = size
            /\ Len(reel_call.results) = Len(b)
            /\ Len(b) * size >= n
            /\ (Len(b) - 1) * size < n \/ (n = 0 /\ Len(b) = 0)
            /\ Len(SelectSeq(reel_call.stages, LAMBDA s : s = "reel_processor"))
                  = n

\* Four reels in batches of three have given a full batch and one of a
\* single reel.
C16_Witness ==
    /\ reel_call.pc = "returned"
    /\ reel_call.batch_size = 3
    /\ reel_call.batches = <<<<1, 2, 3>>, <<4>>>>
    /\ Len(reel_call.results) = 2


\* What step 4 is to store for a first batch summary: the names of its
\* locations and its summary text.
StoredFor(first) ==
    CASE first = <<"{", "L", "V", "}">> ->
            [locations |-> <<[str |-> TRUE, v |-> "a"]>>, summary |-> ""]
      [] first = <<"{", "M", "V", "}">> ->
            [locations |-> <<[str |-> TRUE, v |-> "a"]>>, summary |-> "m"]
      [] first = <<"{", "L", "N", "}">> ->
            [locations |-> <<[str |-> FALSE, v |-> "null"]>>, summary |-> ""]
      [] first = <<"{", "L", "{", "}", "}">> ->
            [locations |-> <<>>, summary |-> ""]
      [] OTHER ->
            [locations |-> <<[str |-> FALSE, v |-> "nothing stored"]>>,
             summary |-> "nothing stored"]

\* C17: once step 4 has stored its result, the locations and the summary in
\* the session are those of the first batch summary, whatever the later
\* batches' summaries are; every batch was summarized all the same.
C17_FirstSummaryOnly ==
    step = 5 =>
        /\ summaries # <<>>
        /\ session.locations = StoredFor(summaries[1]).locations
        /\ session.summary = StoredFor(summaries[1]).summary
        /\ Cardinality({k \in 1..Len(stages) : stages[k] = "batch_summarizer"})
              >= Len(summaries)

\* Two batches were summarized; the second summary names a location and
\* holds a summary text, the first holds neither, and nothing is stored.
C17_Witness ==
    /\ step = 5
    /\ Len(summaries) = 2
    /\ summaries[1] = <<"{", "L", "{", "}", "}">>
    /\ summaries[2] = <<"{", "M", "V", "}">>
    /\ session.locations = <<>>
    /\ session.summary = ""


\* The pattern of an attempt matched and json.loads refuses what it matched.
FencedUnparseable ==
    /\ FencedSearch(text).matched
    /\ JSONLoads(FencedSearch(text).group) = JSONDecodeError

LooseUnparseable ==
    /\ ~FencedSearch(text).matched
    /\ LooseSearch(text).matched
    /\ JSONLoads(LooseSearch(text).group) = JSONDecodeError

\* C18: a call makes one parse attempt, the one its pattern matching picks;
\* a fenced block that matches and does not parse gives None whatever the
\* loose pattern or the whole text would give, and a loose object that
\* matches and does not parse gives None whatever the whole text would give.
C18_OneAttemptByMatch ==
    Called =>
        /\ extracted.used \in {"fenced", "loose", "whole"}
        /\ FencedUnparseable =>
              extracted.used = "fenced" /\ extracted.result = None
        /\ LooseUnparseable =>
              extracted.used = "loose" /\ extracted.result = None
        /\ extracted.result # None =>
              extracted.result
                 = (CASE extracted.used = "fenced" -> JSONLoads(FencedSearch(text).group)
                      [] extracted.used = "loose" -> JSONLoads(LooseSearch(text).group)
                      [] OTHER -> JSONLoads(text))

\* A fenced block that does not parse stands before a trip_overview object
\* that does, and the call has returned None.
C18_Witness ==
    /\ Called
    /\ FencedUnparseable
    /\ LooseAttempt(text) # None
    /\ extracted.result = None

\* The object inside a larger one is matched by the loose pattern together
\* with the brace that follows it; the whole text parses, and the call has
\* returned None.
C18_LooseCase ==
    /\ Called
    /\ LooseUnparseable
    /\ WholeAttempt(text) # None
    /\ extracted.result = None


\* The lookups of the optional loop that give a candidate: details found,
\* with a cost above zero.
Qualifying ==
    {k \in (Len(non_neg_places) + 1)..Len(queried) :
        queried[k].found /\ queried[k].cost > 0}

\* The lookups of the mandatory loop that found a cost of zero.
FreeMandatory ==
    {k \in 1..Len(MandatoryQueries) :
        queried[k].found /\ queried[k].cost = 0}

\* C19: the candidates of the selection are the optional places whose lookup
\* gave a cost above zero, one for each such lookup and no other, so that an
\* optional place with cost zero or a failed lookup is in no final_places;
\* a mandatory place found with cost zero is in final_places.
C19_ZeroCostOptionalDropped ==
    /\ Len(neg_places_details) = Cardinality(Qualifying)
    /\ \A j \in 1..Len(neg_places_details) :
          /\ neg_places_details[j].cost > 0
          /\ \E k \in Qualifying :
                /\ queried[k].named = neg_places_details[j].place
                /\ queried[k].cost = neg_places_details[j].cost
    /\ \A j \in 1..Len(OptionalOf(FinalList)) :
          /\ OptionalOf(FinalList)[j].cost > 0
          /\ \E i \in 1..Len(neg_places_details) :
                neg_places_details[i] = OptionalOf(FinalList)[j]
    /\ \A k \in 1..Len(files) :
          \A j \in 1..Len(OptionalOf(files[k].final_places)) :
              OptionalOf(files[k].final_places)[j].cost > 0
    /\ Cardinality(FreeMandatory)
          = Len(SelectSeq(MandatoryOf(FinalList), LAMBDA e : e.cost = 0))
    /\ \A k \in FreeMandatory :
          \E j \in 1..Len(MandatoryOf(FinalList)) :
              /\ MandatoryOf(FinalList)[j].place = queried[k].named
              /\ MandatoryOf(FinalList)[j].cost = 0

\* A run has ended in which one optional place came back with cost zero and
\* the lookup of another failed, neither is in the written final_places, and
\* a mandatory place of cost zero is.
C19_Witness ==
    /\ pc = "done"
    /\ Len(files) = 1
    /\ \E k \in (Len(non_neg_places) + 1)..Len(queried) :
          queried[k].found /\ queried[k].cost = 0
    /\ \E k \in (Len(non_neg_places) + 1)..Len(queried) : queried[k].failed
    /\ OptionalOf(files[1].final_places) = <<>>
    /\ \E j \in 1..Len(files[1].final_places) :
          files[1].final_places[j].score = <<>>
          /\ files[1].final_places[j].cost = 0

=============================================================================








